---- MODULE Spec2Model ----
(***************************************************************************)
(* Model of epss-enrich.go: one run of main().  The tracking service, the  *)
(* published score feed and the command line are the environment; the      *)
(* run goes FetchFindings -> CreateJsonQuery -> CreateFindingsRaw ->       *)
(* FetchEpssData -> LoadEpssData -> EnrichFindingData -> PatchFindingData. *)
(*                                                                         *)
(* Text is a sequence of one-character strings (<<>> is the empty string), *)
(* so that strings.Contains, strconv.ParseFloat and Sprintf("%.5f") are    *)
(* computed rather than assumed.  A float64 is a fixed-point integer with  *)
(* FracDigits decimals, exact for every numeric text the feeds below hold. *)
(***************************************************************************)
EXTENDS Integers, Sequences, FiniteSets, TLC

\* Largest length of the listing's results array.
MaxResults == 3
\* Largest number of feed lines after the metadata line.
MaxFeedRows == 3

\* "%.5f" of EnrichFindingData.
FracDigits == 5
\* http.StatusOK
StatusOK == 200
\* default of the -p flag
DefaultPort == 8080

RECURSIVE Pow10(_)
Pow10(n) == IF n = 0 THEN 1 ELSE 10 * Pow10(n - 1)

Scale == Pow10(FracDigits)

---------------------------------------------------------------------------
(* Text *)

Digits == <<"0", "1", "2", "3", "4", "5", "6", "7", "8", "9">>

IsDigit(c) == \E d \in 1..10 : Digits[d] = c

DigitVal(c) == (CHOOSE d \in 1..10 : Digits[d] = c) - 1

\* strings.Contains(s, sub)
Contains(s, sub) ==
    \E i \in 1..(Len(s) - Len(sub) + 1) : SubSeq(s, i, i + Len(sub) - 1) = sub

\* strings.Index(s, sub) # -1 for a one-character sub
IndexOfChar(s, c) ==
    IF \E i \in 1..Len(s) : s[i] = c
    THEN CHOOSE i \in 1..Len(s) : s[i] = c /\ \A j \in 1..(i - 1) : s[j] # c
    ELSE 0

RECURSIVE DecValue(_)
DecValue(ds) ==
    IF ds = <<>> THEN 0
    ELSE 10 * DecValue(SubSeq(ds, 1, Len(ds) - 1)) + DigitVal(ds[Len(ds)])

\* strconv.ParseFloat(s, 64) on plain decimal text: digits, at most one ".",
\* at least one digit.  Anything else is a syntax error.  (Exponents, signs,
\* "inf" and more than FracDigits decimals do not occur in the texts below.)
ParseFloat(s) ==
    LET dot == IndexOfChar(s, ".")
        ip  == IF dot = 0 THEN s ELSE SubSeq(s, 1, dot - 1)
        fp  == IF dot = 0 THEN <<>> ELSE SubSeq(s, dot + 1, Len(s))
        ok  == /\ \A i \in 1..Len(ip) : IsDigit(ip[i])
               /\ \A i \in 1..Len(fp) : IsDigit(fp[i])
               /\ Len(ip) + Len(fp) >= 1
               /\ Len(fp) <= FracDigits
    IN  IF ok
        THEN [ok |-> TRUE,
              v  |-> DecValue(ip) * Scale + DecValue(fp) * Pow10(FracDigits - Len(fp))]
        ELSE [ok |-> FALSE, v |-> 0]

RECURSIVE DecText(_)
DecText(n) ==
    IF n < 10 THEN <<Digits[n + 1]>>
    ELSE Append(DecText(n \div 10), Digits[(n % 10) + 1])

RECURSIVE PadLeft(_, _)
PadLeft(s, w) == IF Len(s) >= w THEN s ELSE PadLeft(<<"0">> \o s, w)

\* fmt.Sprintf("%.5f", v)
Fmt5(v) == DecText(v \div Scale) \o <<".">> \o PadLeft(DecText(v % Scale), FracDigits)

CVE1  == <<"C", "V", "E", "-", "1">>
CVE2  == <<"C", "V", "E", "-", "2">>
GHSA1 == <<"G", "H", "S", "A", "-", "x">>
GHSA  == <<"G", "H", "S", "A">>
Token == <<"T", "o", "k", "e", "n", " ", "a">>
Localhost == <<"l", "o", "c", "a", "l", "h", "o", "s", "t">>
DojoHost  == <<"d", "o", "j", "o">>

---------------------------------------------------------------------------
(* JSON values as json.Unmarshal builds them *)

JAbsent == [t |-> "absent"]
JNum(n) == [t |-> "num", n |-> n]
JStr(s) == [t |-> "str", s |-> s]

\* A record object of the listing: its id, the vulnerability_id strings of
\* its vulnerability_ids list (<<>>: no such list, or an empty one), and the
\* two enrichment fields.
RecordObj(id, vids) ==
    [id |-> id, vids |-> vids, epss_score |-> JAbsent, epss_percentile |-> JAbsent]

\* The id the service gives the record at 0-based index i: 10 and 11 for
\* indices 1 and 2, as in the end-to-end scenario.
IdAt(i) == 9 + i

\* The record shapes a listing may hold at index i.
Shapes(i) ==
    { RecordObj(JAbsent, <<>>),                      \* {} (the placeholder)
      RecordObj(JNum(IdAt(i)), <<CVE1>>),
      RecordObj(JNum(IdAt(i)), <<CVE1, CVE2>>),
      RecordObj(JNum(IdAt(i)), <<GHSA1, CVE2>>),
      RecordObj(JNum(IdAt(i)), <<GHSA1>>),           \* alias, nothing second
      RecordObj(JNum(IdAt(i)), << <<>> >>),          \* empty identifier
      RecordObj(JStr(<<"x">>), <<CVE1>>) }           \* id is not a number

Counts == {JAbsent} \cup {JNum(n) : n \in 0..(MaxResults + 1)}

ResultArrays ==
    UNION { {r \in [1..n -> UNION {Shapes(i) : i \in 0..(MaxResults - 1)}] :
                \A k \in 1..n : r[k] \in Shapes(k - 1)} : n \in 0..MaxResults }

NotJson == [json |-> FALSE, count |-> JAbsent, results |-> <<>>]

Listings ==
    {NotJson} \cup {[json |-> TRUE, count |-> c, results |-> r] :
                        c \in Counts, r \in ResultArrays}

\* The end-to-end scenario's listing.
RefListing ==
    [json |-> TRUE, count |-> JNum(3),
     results |-> << RecordObj(JAbsent, <<>>),
                    RecordObj(JNum(IdAt(1)), <<CVE1>>),
                    RecordObj(JNum(IdAt(2)), <<GHSA1, CVE2>>) >>]

---------------------------------------------------------------------------
(* The feed file: whether it holds a line break at all, and the lines      *)
(* after the first (the metadata line), each split at its commas.          *)

N12345 == <<"0", ".", "1", "2", "3", "4", "5">>
N67890 == <<"0", ".", "6", "7", "8", "9", "0">>
NHalf  == <<"0", ".", "5">>
NOne   == <<"1">>
NEpss  == <<"e", "p", "s", "s">>

RowKinds ==
    { <<CVE1, N12345, N67890>>,
      <<CVE1, NHalf, NOne>>,
      <<CVE2, NHalf, N67890>>,
      <<<<"c", "v", "e">>, NEpss, NHalf>>,           \* the column header row
      <<CVE2, NHalf>> }                              \* a short row

NoLineBreak == [nl |-> FALSE, rows |-> <<>>]

Feeds ==
    {NoLineBreak} \cup
    UNION { {[nl |-> TRUE, rows |-> r] : r \in [1..n -> RowKinds]} : n \in 0..MaxFeedRows }

\* A feed whose third data row scores CVE-1 as the scenario does.
RefFeed ==
    [nl |-> TRUE,
     rows |-> << <<CVE1, NHalf, NOne>>, <<CVE1, NHalf, NOne>>, <<CVE1, N12345, N67890>> >>]

---------------------------------------------------------------------------
(* The command line *)

Cli(t, u, p) == [t |-> t, u |-> u, p |-> p]
NoFlags == [t |-> JAbsent, u |-> JAbsent, p |-> JAbsent]
Clis == { NoFlags, Cli(JStr(Token), JStr(DojoHost), JNum(DefaultPort + 1)),
          Cli(JStr(Token), JAbsent, JAbsent) }

---------------------------------------------------------------------------
(* jsonq accessors over the decoded listing *)

Fail == [ok |-> FALSE, v |-> 0]
Ok(v) == [ok |-> TRUE, v |-> v]

\* jq.String("results", i, "vulnerability_ids", k, "vulnerability_id")
JqString(blob, i, k) ==
    IF i + 1 <= Len(blob.results) /\ k + 1 <= Len(blob.results[i + 1].vids)
    THEN Ok(blob.results[i + 1].vids[k + 1])
    ELSE Fail

\* jsonq's intFromInterface: a number is truncated, a string is parsed as a
\* float and truncated, anything else is an error.
JqIntOf(val) ==
    CASE val.t = "num" -> Ok(val.n)
      [] val.t = "str" -> IF ParseFloat(val.s).ok
                          THEN Ok(ParseFloat(val.s).v \div Scale) ELSE Fail
      [] OTHER -> Fail

\* jq.Int("results", i, "id")
JqId(blob, i) ==
    IF i + 1 <= Len(blob.results) THEN JqIntOf(blob.results[i + 1].id) ELSE Fail

\* jq.Object("results", i): a reference to the decoded object, not a copy.
JqObject(blob, i) == IF i + 1 <= Len(blob.results) THEN Ok(i) ELSE Fail

---------------------------------------------------------------------------
(* CreateFindingsRaw *)

\* The alias test with its needle misspelt.
IsAliasMisspelt(s) == Contains(s, <<"G", "H", "A", "S">>)

\* strings.Contains(current_finding.cve, "GHSA")
IsAlias(s) == Contains(s, GHSA)

\* The loop starting at the first element.
FirstIndexZero == 1 - 1

\* for i := 1; ...
FirstIndex == 1

\* One pass of the loop body for index i: the finding, or a log.Fatal.
ExtractOne(blob, i) ==
    LET s0  == JqString(blob, i, 0)
        s1  == JqString(blob, i, 1)
        id  == JqId(blob, i)
        obj == JqObject(blob, i)
    IN  IF ~s0.ok THEN Fail
        ELSE IF IsAlias(s0.v) /\ ~s1.ok THEN Fail
        ELSE IF ~id.ok THEN Fail
        ELSE IF ~obj.ok THEN Fail
        ELSE Ok([selector |-> i, id |-> id.v,
                 cve |-> IF IsAlias(s0.v) THEN s1.v ELSE s0.v,
                 epss_score |-> 0, epss_percentile |-> 0, body |-> obj.v])

RECURSIVE ExtractLoop(_, _, _, _)
ExtractLoop(blob, i, n, acc) ==
    IF ~(i < n) THEN Ok(acc)
    ELSE IF ~ExtractOne(blob, i).ok THEN Fail
    ELSE ExtractLoop(blob, i + 1, n, Append(acc, ExtractOne(blob, i).v))

\* The whole function: the list, or a log.Fatal.
CreateFindingsRawOf(blob) ==
    LET c == JqIntOf(blob.count)
    IN  IF ~c.ok THEN Fail ELSE ExtractLoop(blob, FirstIndex, c.v, <<>>)

---------------------------------------------------------------------------
(* LoadEpssData *)

\* epss_list[2:]
SkipRows == 2

Ended(st) == [status |-> st, list |-> <<>>]

\* The csv.Reader loop.  nf is the reader's FieldsPerRecord: 0 until the
\* first record sets it, and a later record of another length is an error.
\* record[1] and record[2] of a shorter record panic (index out of range).
RECURSIVE ReadRows(_, _, _)
ReadRows(rows, nf, acc) ==
    IF rows = <<>> THEN [status |-> "ok", list |-> acc]
    ELSE LET rec == Head(rows)
         IN  IF nf # 0 /\ Len(rec) # nf THEN Ended("fatal")
             ELSE IF Len(rec) < 2 THEN Ended("panic")
             ELSE IF ~ParseFloat(rec[2]).ok THEN Ended("fatal")
             ELSE IF Len(rec) < 3 THEN Ended("panic")
             ELSE IF ~ParseFloat(rec[3]).ok THEN Ended("fatal")
             ELSE ReadRows(Tail(rows), Len(rec),
                           Append(acc, [cve |-> rec[1],
                                        score |-> ParseFloat(rec[2]).v,
                                        percentile |-> ParseFloat(rec[3]).v]))

\* The loader skipping a feed it cannot read instead of ending the run.
LoadEpssDataLenient(feed) ==
    IF ~feed.nl THEN [status |-> "ok", list |-> <<>>]
    ELSE LET r == ReadRows(feed.rows, 0, <<>>)
         IN  IF r.status # "ok" THEN [status |-> "ok", list |-> <<>>]
             ELSE IF Len(r.list) < SkipRows THEN Ended("panic")
             ELSE [status |-> "ok", list |-> SubSeq(r.list, SkipRows + 1, Len(r.list))]

\* The whole function: the list, a log.Fatal, or a panic of the slice
\* expression when fewer than SkipRows entries were read.
LoadEpssDataOf(feed) ==
    IF ~feed.nl THEN Ended("fatal")
    ELSE LET r == ReadRows(feed.rows, 0, <<>>)
         IN  IF r.status # "ok" THEN r
             ELSE IF Len(r.list) < SkipRows THEN Ended("panic")
             ELSE [status |-> "ok", list |-> SubSeq(r.list, SkipRows + 1, Len(r.list))]

---------------------------------------------------------------------------
(* EnrichFindingData *)

MapPut(m, key, val) == [x \in (DOMAIN m) \cup {key} |-> IF x = key THEN val ELSE m[x]]

EmptyMap == [x \in {} |-> 0]

\* epssMap[epss.cve] = epss, in list order
RECURSIVE BuildMap(_, _)
BuildMap(list, m) ==
    IF list = <<>> THEN m
    ELSE BuildMap(Tail(list), MapPut(m, Head(list).cve, Head(list)))

\* if epss, exists := epssMap[finding.cve]; exists
Matches(m, f) == f.cve \in DOMAIN m

\* The loop body for one finding: the finding struct after it.
EnrichFinding(m, f) ==
    IF Matches(m, f)
    THEN [f EXCEPT !.epss_score = m[f.cve].score,
                   !.epss_percentile = m[f.cve].percentile]
    ELSE f

\* The payload written outside the test for a match.
EnrichBodyAlways(m, f, obj) ==
    [obj EXCEPT !.epss_score = JStr(Fmt5(EnrichFinding(m, f).epss_score)),
                !.epss_percentile = JStr(Fmt5(EnrichFinding(m, f).epss_percentile))]

\* The loop body for one finding: the decoded object its body refers to.
EnrichBody(m, f, obj) ==
    IF Matches(m, f)
    THEN [obj EXCEPT !.epss_score = JStr(Fmt5(m[f.cve].score)),
                     !.epss_percentile = JStr(Fmt5(m[f.cve].percentile))]
    ELSE obj

\* All decoded objects after the loop: finding i writes through its body
\* reference; objects no finding refers to are not touched.
EnrichResults(m, list, results) ==
    [j \in 1..Len(results) |->
        IF \E i \in 1..Len(list) : list[i].body + 1 = j
        THEN LET i == CHOOSE i \in 1..Len(list) : list[i].body + 1 = j
             IN  EnrichBody(m, list[i], results[j])
        ELSE results[j]]

---------------------------------------------------------------------------
(* The run *)

VARIABLES
    cli,            \* the command line the program was started with
    service,        \* the listing the tracking service answers with
    feedFile,       \* the feed the publisher serves
    pc,             \* the stage main() is in, or ended in
    exit,           \* "running", "ok", "fatal" (log.Fatal) or "panic"
    flags,          \* main's flags struct
    listReq,        \* the listing requests sent
    jq,             \* the decoded listing behind the JsonQuery
    findings_list,  \* main's findings_list
    epss_data,      \* main's epss_data
    epssMap,        \* EnrichFindingData's epssMap
    next,           \* PatchFindingData's position in findings_list
    calls,          \* the update requests sent, each with whether it was
                    \* answered and the status of the answer (0: none)
    applied,        \* id -> the body of the last update the service answered 200
    out             \* the lines printed

vars == <<cli, service, feedFile, pc, exit, flags, listReq, jq, findings_list,
          epss_data, epssMap, next, calls, applied, out>>

env == <<cli, service, feedFile>>

\* The runs considered: every listing against the reference feed, every feed
\* against the reference listing, and every command line against both.
Worlds ==
    {<<NoFlags, l, RefFeed>> : l \in Listings}
    \cup {<<NoFlags, RefListing, f>> : f \in Feeds}
    \cup {<<c, RefListing, RefFeed>> : c \in Clis}

NoBlob == [json |-> FALSE, count |-> JAbsent, results |-> <<>>]

Init ==
    /\ \E w \in Worlds : cli = w[1] /\ service = w[2] /\ feedFile = w[3]
    /\ pc = "main"
    /\ exit = "running"
    /\ flags = [authToken |-> <<>>, ip |-> <<>>, port |-> 0]
    /\ listReq = <<>>
    /\ jq = NoBlob
    /\ findings_list = <<>>
    /\ epss_data = <<>>
    /\ epssMap = EmptyMap
    /\ next = 1
    /\ calls = <<>>
    /\ applied = EmptyMap
    /\ out = <<>>

Line(msg, args) == [msg |-> msg, args |-> args]

At(stage) == exit = "running" /\ pc = stage

\* *flag.String(name, def, usage): the new flag variable is read at once, and
\* main never calls flag.Parse, so it still holds its default.
FlagValue(given, def) == def

\* main, up to the call of FetchFindings
Main ==
    /\ At("main")
    /\ flags' = [authToken |-> FlagValue(cli.t, <<>>),
                 ip        |-> FlagValue(cli.u, Localhost),
                 port      |-> FlagValue(cli.p, DefaultPort)]
    /\ out' = Append(out, Line("Starting EPSS enrichment...", <<>>))
    /\ pc' = "FetchFindings"
    /\ UNCHANGED <<env, exit, listReq, jq, findings_list, epss_data, epssMap,
                   next, calls, applied>>

\* FetchFindings: the GET is sent; the transport fails (log.Fatal) or the
\* service's answer is read.
FetchFindings ==
    /\ At("FetchFindings")
    /\ listReq' = Append(listReq, [auth |-> flags.authToken, host |-> flags.ip,
                                   port |-> flags.port])
    /\ \/ /\ exit' = "fatal"
          /\ UNCHANGED <<pc, out>>
       \/ /\ pc' = "CreateJsonQuery"
          /\ out' = Append(out, Line("Fetched all active findings...", <<>>))
          /\ UNCHANGED exit
    /\ UNCHANGED <<env, flags, jq, findings_list, epss_data, epssMap, next,
                   calls, applied>>

\* CreateJsonQuery: json.Unmarshal fails (log.Fatal) or the blob is built.
CreateJsonQuery ==
    /\ At("CreateJsonQuery")
    /\ IF service.json
       THEN /\ jq' = service
            /\ pc' = "CreateFindingsRaw"
            /\ UNCHANGED exit
       ELSE /\ exit' = "fatal"
            /\ UNCHANGED <<jq, pc>>
    /\ UNCHANGED <<env, flags, listReq, findings_list, epss_data, epssMap, next,
                   calls, applied, out>>

\* CreateFindingsRaw and main's report of it
CreateFindingsRaw ==
    /\ At("CreateFindingsRaw")
    /\ LET c == JqIntOf(jq.count)
           r == CreateFindingsRawOf(jq)
       IN  IF r.ok
           THEN /\ findings_list' = r.v
                /\ out' = out \o <<Line("Total findings:", <<c.v>>),
                                   Line("findings loaded...", <<Len(r.v)>>),
                                   Line("Fetching EPSS data...", <<>>)>>
                /\ pc' = "FetchEpssData"
                /\ UNCHANGED exit
           ELSE /\ exit' = "fatal"
                /\ out' = IF c.ok THEN Append(out, Line("Total findings:", <<c.v>>))
                                  ELSE out
                /\ UNCHANGED <<findings_list, pc>>
    /\ UNCHANGED <<env, flags, listReq, jq, epss_data, epssMap, next, calls, applied>>

\* FetchEpssData: the download or the decompression fails (log.Fatal), or
\* the feed is on disk.
FetchEpssData ==
    /\ At("FetchEpssData")
    /\ \/ /\ exit' = "fatal"
          /\ UNCHANGED pc
       \/ /\ pc' = "LoadEpssData"
          /\ UNCHANGED exit
    /\ UNCHANGED <<env, flags, listReq, jq, findings_list, epss_data, epssMap,
                   next, calls, applied, out>>

\* LoadEpssData and main's report of it
LoadEpssData ==
    /\ At("LoadEpssData")
    /\ LET r == LoadEpssDataOf(feedFile)
       IN  IF r.status = "ok"
           THEN /\ epss_data' = r.list
                /\ out' = Append(out, Line("EPSS scores loaded...", <<Len(r.list)>>))
                /\ pc' = "EnrichFindingData"
                /\ UNCHANGED exit
           ELSE /\ exit' = r.status
                /\ UNCHANGED <<epss_data, out, pc>>
    /\ UNCHANGED <<env, flags, listReq, jq, findings_list, epssMap, next, calls,
                   applied>>

\* EnrichFindingData and main's report of it
EnrichFindingData ==
    /\ At("EnrichFindingData")
    /\ LET m == BuildMap(epss_data, EmptyMap)
       IN  /\ epssMap' = m
           /\ findings_list' = [i \in 1..Len(findings_list) |->
                                    EnrichFinding(m, findings_list[i])]
           /\ jq' = [jq EXCEPT !.results = EnrichResults(m, findings_list, jq.results)]
    /\ out' = Append(out, Line("Enriched findings...", <<>>))
    /\ pc' = "PatchFindingData"
    /\ UNCHANGED <<env, exit, flags, listReq, epss_data, next, calls, applied>>

\* The statuses the service answers an update with.
Statuses == {StatusOK, 500}

\* The PUT request for finding f.
UpdateRequest(f) ==
    [id |-> f.id, auth |-> flags.authToken, host |-> flags.ip, port |-> flags.port,
     body |-> jq.results[f.body + 1]]

\* A transport failure handled like a rejected update.
PatchTransportFailureRecorded(f) ==
    /\ calls' = Append(calls, [req |-> UpdateRequest(f), answered |-> FALSE,
                               status |-> 0])
    /\ out' = Append(out, Line("Updating finding failed with status code", <<0>>))
    /\ next' = next + 1
    /\ UNCHANGED <<exit, applied>>

\* client.Do returned err # nil: log.Fatal.
PatchTransportFailure(f) ==
    /\ calls' = Append(calls, [req |-> UpdateRequest(f), answered |-> FALSE,
                               status |-> 0])
    /\ exit' = "fatal"
    /\ UNCHANGED <<next, applied, out>>

\* The response handling with a rejected update ending the run.
PatchResponseAborting(f, st) ==
    /\ calls' = Append(calls, [req |-> UpdateRequest(f), answered |-> TRUE,
                               status |-> st])
    /\ applied' = IF st = StatusOK THEN MapPut(applied, f.id, UpdateRequest(f).body)
                                   ELSE applied
    /\ out' = Append(out, IF st # StatusOK
                          THEN Line("Updating finding failed with status code", <<st>>)
                          ELSE Line("Successfully updated finding with ID:", <<f.id>>))
    /\ IF st # StatusOK
       THEN exit' = "fatal" /\ UNCHANGED next
       ELSE next' = next + 1 /\ UNCHANGED exit

\* client.Do returned a response with status st.
PatchResponse(f, st) ==
    /\ calls' = Append(calls, [req |-> UpdateRequest(f), answered |-> TRUE,
                               status |-> st])
    /\ applied' = IF st = StatusOK THEN MapPut(applied, f.id, UpdateRequest(f).body)
                                   ELSE applied
    /\ out' = Append(out, IF st # StatusOK
                          THEN Line("Updating finding failed with status code", <<st>>)
                          ELSE Line("Successfully updated finding with ID:", <<f.id>>))
    /\ next' = next + 1
    /\ UNCHANGED exit

\* One pass of PatchFindingData's loop.
PatchFindingData ==
    /\ At("PatchFindingData")
    /\ next <= Len(findings_list)
    /\ \/ PatchTransportFailure(findings_list[next])
       \/ \E st \in Statuses : PatchResponse(findings_list[next], st)
    /\ UNCHANGED <<env, pc, flags, listReq, jq, findings_list, epss_data, epssMap>>

\* PatchFindingData returns; main prints its last line and ends.
MainReturn ==
    /\ At("PatchFindingData")
    /\ next > Len(findings_list)
    /\ out' = Append(out, Line("Findings patched.", <<>>))
    /\ exit' = "ok"
    /\ UNCHANGED <<env, pc, flags, listReq, jq, findings_list, epss_data, epssMap,
                   next, calls, applied>>

Next ==
    \/ Main
    \/ FetchFindings
    \/ CreateJsonQuery
    \/ CreateFindingsRaw
    \/ FetchEpssData
    \/ LoadEpssData
    \/ EnrichFindingData
    \/ PatchFindingData
    \/ MainReturn

Spec == Init /\ [][Next]_vars

---------------------------------------------------------------------------
(* Properties *)

\* CreateFindingsRaw has returned its list to main.
Extracted == pc \in {"FetchEpssData", "LoadEpssData", "EnrichFindingData",
                     "PatchFindingData"}

\* The run ended in a log.Fatal or a panic.
Aborted == exit \in {"fatal", "panic"}

HasPrefix(s, pre) == Len(s) >= Len(pre) /\ SubSeq(s, 1, Len(pre)) = pre

\* A CVE string, and an advisory alias, as the listing writes them.
IsCveString(s) == HasPrefix(s, <<"C", "V", "E", "-">>) /\ Len(s) > 4
IsAdvisoryAlias(s) == HasPrefix(s, <<"G", "H", "S", "A", "-">>)

\* C1: for a listing whose count is n, a returned list holds exactly n - 1
\* summaries and none of them has an empty cveReference.  (Stated for
\* n >= 1, where a list of n - 1 summaries exists.)
C1_ExactlyCountMinusOne ==
    (Extracted /\ JqIntOf(service.count).v >= 1) =>
        /\ Len(findings_list) = JqIntOf(service.count).v - 1
        /\ \A k \in 1..Len(findings_list) : findings_list[k].cve # <<>>

\* C2: a summary of a record whose first identifier is an advisory alias and
\* whose second is a CVE string carries the second; a summary of a record
\* whose first identifier is a CVE string carries the first; and no list is
\* returned when a record in range has an alias first and nothing second.
C2_AliasResolution ==
    Extracted =>
        /\ \A k \in 1..Len(findings_list) :
              LET f    == findings_list[k]
                  vids == service.results[f.selector + 1].vids
              IN  /\ (IsAdvisoryAlias(vids[1]) /\ Len(vids) >= 2
                                               /\ IsCveString(vids[2]))
                         => f.cve = vids[2]
                  /\ IsCveString(vids[1]) => f.cve = vids[1]
        /\ \A i \in 1..(JqIntOf(service.count).v - 1) :
              i + 1 <= Len(service.results) =>
                  LET vids == service.results[i + 1].vids
                  IN  ~(Len(vids) = 1 /\ IsAdvisoryAlias(vids[1]))

\* C2 witness: a list was returned holding a summary resolved through the
\* alias rule and a summary taken from position 0.
C2_Witness ==
    /\ Extracted
    /\ \E k \in 1..Len(findings_list) :
          LET vids == service.results[findings_list[k].selector + 1].vids
          IN  IsAdvisoryAlias(vids[1]) /\ findings_list[k].cve = CVE2
    /\ \E k \in 1..Len(findings_list) :
          LET vids == service.results[findings_list[k].selector + 1].vids
          IN  IsCveString(vids[1]) /\ Len(vids) = 2 /\ findings_list[k].cve = CVE1

UpdateLines ==
    SelectSeq(out, LAMBDA l : l.msg \in {"Updating finding failed with status code",
                                          "Successfully updated finding with ID:"})

Rejected == {i \in 1..Len(calls) : calls[i].answered /\ calls[i].status # StatusOK}

\* C4: the line printed for a rejected update names the record's id and the
\* status, the line for an accepted one names the id, and a run that ends
\* after a rejected update reports the number of rejected updates.
C4_FailuresReported ==
    /\ Len(UpdateLines) = Cardinality({i \in 1..Len(calls) : calls[i].answered})
    /\ \A i \in 1..Len(UpdateLines) :
          IF calls[i].status # StatusOK
          THEN UpdateLines[i].args = <<calls[i].req.id, calls[i].status>>
          ELSE UpdateLines[i].args = <<calls[i].req.id>>
    /\ (exit = "ok" /\ Rejected # {}) => out[Len(out)].args = <<Cardinality(Rejected)>>

\* A feed as the publisher describes it: a metadata line, then rows of an
\* identifier and two decimal fractions.
WellFormed(feed) ==
    /\ feed.nl
    /\ \A i \in 1..Len(feed.rows) :
          /\ Len(feed.rows[i]) = 3
          /\ ParseFloat(feed.rows[i][2]).ok
          /\ ParseFloat(feed.rows[i][3]).ok

LastRow(rows, c) == CHOOSE i \in 1..Len(rows) :
                        rows[i][1] = c /\ \A j \in (i + 1)..Len(rows) : rows[j][1] # c

\* C5: the mapping built from a well-formed feed has a key for every
\* identifier of a row after the header line, and no other, with the score
\* and percentile of the last row of that identifier.
C5_MapOfLastRows ==
    WellFormed(feedFile) =>
        /\ pc = "PatchFindingData" =>
              /\ DOMAIN epssMap = {feedFile.rows[i][1] : i \in 1..Len(feedFile.rows)}
              /\ \A c \in DOMAIN epssMap :
                    LET r == feedFile.rows[LastRow(feedFile.rows, c)]
                    IN  /\ epssMap[c].score = ParseFloat(r[2]).v
                        /\ epssMap[c].percentile = ParseFloat(r[3]).v

\* C6: EnrichFindingData keeps the list's length and order and every
\* record's remoteId, cveReference and position, and leaves a record whose
\* cveReference is no key of the mapping as it was: its scores unset, its
\* payload without the two fields and otherwise the payload received.
C6_UnmatchedUntouched ==
    [][At("EnrichFindingData") =>
        /\ Len(findings_list') = Len(findings_list)
        /\ \A i \in 1..Len(findings_list) :
              LET f == findings_list[i]
                  g == findings_list'[i]
              IN  /\ g.id = f.id /\ g.cve = f.cve /\ g.selector = f.selector
                  /\ g.body = f.body
                  /\ f.cve \notin DOMAIN epssMap' =>
                        /\ g = f
                        /\ g.epss_score = 0 /\ g.epss_percentile = 0
                        /\ jq'.results[g.body + 1] = jq.results[f.body + 1]
                        /\ jq'.results[g.body + 1] = service.results[g.selector + 1]
                        /\ jq'.results[g.body + 1].epss_score = JAbsent
                        /\ jq'.results[g.body + 1].epss_percentile = JAbsent]_vars

\* C6 witness: the join is done on a list with a matched record, which got
\* its fields, and an unmatched one.
C6_Witness ==
    /\ At("PatchFindingData")
    /\ \E i, j \in 1..Len(findings_list) :
          /\ findings_list[i].cve \notin DOMAIN epssMap
          /\ findings_list[j].cve \in DOMAIN epssMap
          /\ jq.results[findings_list[j].body + 1].epss_score = JStr(N12345)
          /\ i < j

EveryRecordUsable(listing) ==
    /\ listing.json
    /\ listing.count.t = "num"
    /\ \A i \in 1..(listing.count.n - 1) :
          /\ i + 1 <= Len(listing.results)
          /\ listing.results[i + 1].id.t = "num"
          /\ Len(listing.results[i + 1].vids) >= 1
          /\ IsAdvisoryAlias(listing.results[i + 1].vids[1])
                => Len(listing.results[i + 1].vids) >= 2

Supplied(given, def) ==
    CASE given.t = "str" -> given.s
      [] given.t = "num" -> given.n
      [] OTHER -> def

\* C9: the listing request and every update request carry the token given
\* on the command line (the empty default when none is given) and go to
\* the host and port given (localhost and 8080 when none is given).
C9_RequestsUseCommandLine ==
    /\ \A i \in 1..Len(listReq) :
          /\ listReq[i].auth = Supplied(cli.t, <<>>)
          /\ listReq[i].host = Supplied(cli.u, Localhost)
          /\ listReq[i].port = Supplied(cli.p, DefaultPort)
    /\ \A i \in 1..Len(calls) :
          /\ calls[i].req.auth = Supplied(cli.t, <<>>)
          /\ calls[i].req.host = Supplied(cli.u, Localhost)
          /\ calls[i].req.port = Supplied(cli.p, DefaultPort)

\* C10: an update call the transport failed is the last call of the run,
\* which it ended; no line was printed for it; and every earlier update
\* the service accepted is still the one applied to its record.
C10_TransportFailureAborts ==
    \A i \in 1..Len(calls) :
        ~calls[i].answered =>
            /\ i = Len(calls)
            /\ exit = "fatal" /\ pc = "PatchFindingData"
            /\ next = i
            /\ Len(UpdateLines) = i - 1
            /\ \A j \in 1..(i - 1) :
                  calls[j].status = StatusOK
                     => /\ calls[j].req.id \in DOMAIN applied
                        /\ applied[calls[j].req.id] = calls[j].req.body

\* C10 witness: the transport failed on the second record after the first
\* update was accepted and applied.
C10_Witness ==
    /\ Len(findings_list) >= 2
    /\ Len(calls) = 2
    /\ calls[1].answered /\ calls[1].status = StatusOK
    /\ ~calls[2].answered
    /\ exit = "fatal"
    /\ calls[1].req.id \in DOMAIN applied

====
